---- MODULE Spec2Model ----
(***************************************************************************)
(* Model of dependabot-config-manager: the ecosystem detector              *)
(* (internal/detector), the configuration merge engine (internal/merger),  *)
(* the configuration data model (internal/config) and the per-repository   *)
(* pipeline of the synchronizer (cmd, Synchronizer.processRepository).     *)
(*                                                                         *)
(* Conventions                                                             *)
(*  - A Go string that the code only compares or copies is a TLA+ string.  *)
(*    The byte-wise order of Go's < on strings is computed from Bytes.     *)
(*  - A file path or a glob pattern, which the code takes apart, is a      *)
(*    sequence of atoms: the separators "/" and ".", the wildcard "*", and  *)
(*    the maximal runs of other characters between them.                   *)
(*  - A Go pointer or map that may be nil is None (<<>>) or Some(v)        *)
(*    (<<v>>).  A nil slice and an empty slice are both <<>>.              *)
(*  - A float64 confidence c is the integer 10*c.                          *)
(***************************************************************************)
EXTENDS Integers, Sequences, FiniteSets, TLC

(***************************************************************************)
(* Bounds of the model.                                                    *)
(***************************************************************************)
\* longest repository tree (number of blob entries)
MaxTree == 2
\* most update rules in the stored (existing) configuration
MaxExisting == 2
\* most topics of a repository
MaxTopics == 2
\* longest tree of the runs that look at the detector alone
MaxDetectTree == 3
\* most repositories of a run of the synchronizer
MaxRepos == 2
\* greatest value of the option -concurrency
MaxConcurrency == 2

None == <<>>
Some(v) == <<v>>

Range(s) == {s[i] : i \in DOMAIN s}

(***************************************************************************)
(* Go strings: byte sequences of the strings that are ever ordered, and    *)
(* the byte-wise lexicographic order of the < operator.                    *)
(***************************************************************************)
Bytes ==
    ("npm" :> <<110, 112, 109>>)
    @@ ("gomod" :> <<103, 111, 109, 111, 100>>)
    @@ ("pip" :> <<112, 105, 112>>)
    @@ ("docker" :> <<100, 111, 99, 107, 101, 114>>)
    @@ ("maven" :> <<109, 97, 118, 101, 110>>)
    @@ ("gradle" :> <<103, 114, 97, 100, 108, 101>>)
    @@ ("bundler" :> <<98, 117, 110, 100, 108, 101, 114>>)
    @@ ("cargo" :> <<99, 97, 114, 103, 111>>)
    @@ ("composer" :> <<99, 111, 109, 112, 111, 115, 101, 114>>)
    @@ ("nuget" :> <<110, 117, 103, 101, 116>>)
    @@ ("github-actions" :> <<103, 105, 116, 104, 117, 98, 45, 97, 99, 116, 105, 111, 110, 115>>)
    @@ ("terraform" :> <<116, 101, 114, 114, 97, 102, 111, 114, 109>>)
    @@ ("elm" :> <<101, 108, 109>>)
    @@ ("gitsubmodule" :> <<103, 105, 116, 115, 117, 98, 109, 111, 100, 117, 108, 101>>)
    @@ ("pub" :> <<112, 117, 98>>)
    @@ ("hex" :> <<104, 101, 120>>)
    @@ ("swift" :> <<115, 119, 105, 102, 116>>)
    @@ ("" :> <<>>)
    @@ ("/" :> <<47>>)
    @@ ("/src" :> <<47, 115, 114, 99>>)
    @@ ("/deploy" :> <<47, 100, 101, 112, 108, 111, 121>>)
    @@ ("/packages" :> <<47, 112, 97, 99, 107, 97, 103, 101, 115>>)
    @@ ("/packages/ui" :> <<47, 112, 97, 99, 107, 97, 103, 101, 115, 47, 117, 105>>)

RECURSIVE BytesLess(_, _)
BytesLess(a, b) ==
    IF b = <<>> THEN FALSE
    ELSE IF a = <<>> THEN TRUE
    ELSE IF Head(a) # Head(b) THEN Head(a) < Head(b)
    ELSE BytesLess(Tail(a), Tail(b))

\* a < b on Go strings
StrLess(a, b) == BytesLess(Bytes[a], Bytes[b])

(***************************************************************************)
(* internal/detector: paths, patterns and the indicator catalog.           *)
(***************************************************************************)
\* the string an atom sequence spells
RECURSIVE Str(_)
Str(atoms) == IF atoms = <<>> THEN "" ELSE Head(atoms) \o Str(Tail(atoms))

\* index of the last "/" atom of a path, 0 if there is none
LastSlash(path) ==
    LET S == {i \in DOMAIN path : path[i] = "/"}
    IN  IF S = {} THEN 0 ELSE CHOOSE i \in S : \A j \in S : j <= i

\* filepath.Base of a clean relative path
Base(path) == SubSeq(path, LastSlash(path) + 1, Len(path))

\* filepath.Dir of a clean relative path ("." when it has no directory)
Dir(path) ==
    IF LastSlash(path) = 0 THEN <<".">> ELSE SubSeq(path, 1, LastSlash(path) - 1)

\* Match whose "*" also matches the separator
RECURSIVE MatchAcrossSeparator(_, _)
MatchAcrossSeparator(pattern, name) ==
    IF pattern = <<>> THEN name = <<>>
    ELSE IF Head(pattern) = "*"
         THEN \/ MatchAcrossSeparator(Tail(pattern), name)
              \/ /\ name # <<>>
                 /\ MatchAcrossSeparator(pattern, Tail(name))
         ELSE /\ name # <<>>
              /\ Head(name) = Head(pattern)
              /\ MatchAcrossSeparator(Tail(pattern), Tail(name))

\* filepath.Match for patterns whose only metacharacter is "*"
RECURSIVE Match(_, _)
Match(pattern, name) ==
    IF pattern = <<>> THEN name = <<>>
    ELSE IF Head(pattern) = "*"
         THEN \/ Match(Tail(pattern), name)
              \/ /\ name # <<>>
                 /\ Head(name) # "/"
                 /\ Match(pattern, Tail(name))
         ELSE /\ name # <<>>
              /\ Head(name) = Head(pattern)
              /\ Match(Tail(pattern), Tail(name))

matchesPattern(path, pattern) ==
    IF \E i \in DOMAIN pattern : pattern[i] = "*"
    THEN Match(pattern, Base(path)) \/ Match(pattern, path)
    ELSE Base(path) = pattern \/ path = pattern

extractDirectory(path) ==
    LET dir == Dir(path)
    IN  IF dir = <<".">> THEN "/"
        ELSE IF Head(dir) # "/" THEN "/" \o Str(dir)
        ELSE Str(dir)

\* appendUnique that appends whatever the slice holds
appendAlways(slice, item) == Append(slice, item)

appendUnique(slice, item) ==
    IF \E i \in DOMAIN slice : slice[i] = item THEN slice ELSE Append(slice, item)

\* the keys of the indicators map, in the order the table is written
EcosystemTags ==
    << "npm", "gomod", "pip", "docker",
       "maven", "gradle", "bundler", "cargo",
       "composer", "nuget", "github-actions", "terraform",
       "elm", "gitsubmodule", "pub", "hex" >>

indicators ==
    ("npm" :> <<
          [file |-> <<"package-lock", ".", "json">>, confidence |-> 10],
          [file |-> <<"yarn", ".", "lock">>, confidence |-> 10],
          [file |-> <<"pnpm-lock", ".", "yaml">>, confidence |-> 10],
          [file |-> <<"package", ".", "json">>, confidence |-> 8] >>)
    @@ ("gomod" :> <<
          [file |-> <<"go", ".", "sum">>, confidence |-> 10],
          [file |-> <<"go", ".", "mod">>, confidence |-> 9] >>)
    @@ ("pip" :> <<
          [file |-> <<"poetry", ".", "lock">>, confidence |-> 10],
          [file |-> <<"Pipfile", ".", "lock">>, confidence |-> 10],
          [file |-> <<"requirements", ".", "txt">>, confidence |-> 8],
          [file |-> <<"setup", ".", "py">>, confidence |-> 7],
          [file |-> <<"pyproject", ".", "toml">>, confidence |-> 9] >>)
    @@ ("docker" :> <<
          [file |-> <<"Dockerfile">>, confidence |-> 9],
          [file |-> <<"docker-compose", ".", "yml">>, confidence |-> 8],
          [file |-> <<"docker-compose", ".", "yaml">>, confidence |-> 8],
          [file |-> <<"Dockerfile", ".", "*">>, confidence |-> 9] >>)
    @@ ("maven" :> <<
          [file |-> <<"pom", ".", "xml">>, confidence |-> 9] >>)
    @@ ("gradle" :> <<
          [file |-> <<"gradle", ".", "lock">>, confidence |-> 10],
          [file |-> <<"build", ".", "gradle">>, confidence |-> 8],
          [file |-> <<"build", ".", "gradle", ".", "kts">>, confidence |-> 8] >>)
    @@ ("bundler" :> <<
          [file |-> <<"Gemfile", ".", "lock">>, confidence |-> 10],
          [file |-> <<"Gemfile">>, confidence |-> 8] >>)
    @@ ("cargo" :> <<
          [file |-> <<"Cargo", ".", "lock">>, confidence |-> 10],
          [file |-> <<"Cargo", ".", "toml">>, confidence |-> 8] >>)
    @@ ("composer" :> <<
          [file |-> <<"composer", ".", "lock">>, confidence |-> 10],
          [file |-> <<"composer", ".", "json">>, confidence |-> 8] >>)
    @@ ("nuget" :> <<
          [file |-> <<"packages", ".", "config">>, confidence |-> 8],
          [file |-> <<"*", ".", "csproj">>, confidence |-> 7],
          [file |-> <<"*", ".", "fsproj">>, confidence |-> 7],
          [file |-> <<"*", ".", "vbproj">>, confidence |-> 7] >>)
    @@ ("github-actions" :> <<
          [file |-> <<".", "github", "/", "workflows", "/", "*", ".", "yml">>, confidence |-> 9],
          [file |-> <<".", "github", "/", "workflows", "/", "*", ".", "yaml">>, confidence |-> 9] >>)
    @@ ("terraform" :> <<
          [file |-> <<"*", ".", "tf">>, confidence |-> 8],
          [file |-> <<".", "terraform", ".", "lock", ".", "hcl">>, confidence |-> 10] >>)
    @@ ("elm" :> <<
          [file |-> <<"elm", ".", "json">>, confidence |-> 9],
          [file |-> <<"elm-package", ".", "json">>, confidence |-> 8] >>)
    @@ ("gitsubmodule" :> <<
          [file |-> <<".", "gitmodules">>, confidence |-> 9] >>)
    @@ ("pub" :> <<
          [file |-> <<"pubspec", ".", "yaml">>, confidence |-> 9],
          [file |-> <<"pubspec", ".", "lock">>, confidence |-> 10] >>)
    @@ ("hex" :> <<
          [file |-> <<"mix", ".", "exs">>, confidence |-> 9],
          [file |-> <<"mix", ".", "lock">>, confidence |-> 10] >>)

\* the switch of Detect that sends an ecosystem's directories to the root
DetectRootOnly(ecosystem) ==
    ecosystem \in {"docker", "github-actions", "terraform", "gitsubmodule"}


\* RecordMatch with the confidence of the last matching indicator
RecordMatchLastWins(eco, ecosystem, ind, dir) ==
    LET cur == IF eco = None
               THEN [Name |-> ecosystem, Type |-> ecosystem,
                     Directories |-> <<>>, Confidence |-> ind.confidence]
               ELSE [eco[1] EXCEPT !.Confidence = ind.confidence]
        directory == IF DetectRootOnly(ecosystem) THEN "/" ELSE dir
    IN  Some([cur EXCEPT !.Directories = appendUnique(cur.Directories, directory)])

\* one pass of the innermost loop body of Detect for one matching indicator:
\* eco is the map entry ecosystems[ecosystem] (None while it does not exist)
RecordMatch(eco, ecosystem, ind, dir) ==
    LET cur == IF eco = None
               THEN [Name |-> ecosystem, Type |-> ecosystem,
                     Directories |-> <<>>, Confidence |-> ind.confidence]
               ELSE IF ind.confidence > eco[1].Confidence
                    THEN [eco[1] EXCEPT !.Confidence = ind.confidence]
                    ELSE eco[1]
        directory == IF DetectRootOnly(ecosystem) THEN "/" ELSE dir
    IN  Some([cur EXCEPT !.Directories = appendUnique(cur.Directories, directory)])

\* for _, ind := range files, from indicator k on
RECURSIVE ScanIndicators(_, _, _, _)
ScanIndicators(eco, ecosystem, path, k) ==
    IF k > Len(indicators[ecosystem]) THEN eco
    ELSE LET ind == indicators[ecosystem][k]
         IN  ScanIndicators(
                 IF matchesPattern(path, ind.file)
                 THEN RecordMatch(eco, ecosystem, ind, extractDirectory(path))
                 ELSE eco,
                 ecosystem, path, k + 1)

\* for _, entry := range tree.Entries, from entry i on, for one key of the
\* indicators map: an iteration for one key reads and writes only
\* ecosystems[key], so the keys are scanned independently of each other
RECURSIVE ScanEntries(_, _, _, _)
ScanEntries(eco, ecosystem, entries, i) ==
    IF i > Len(entries) THEN eco
    ELSE ScanEntries(
             IF entries[i].Type = "blob"
             THEN ScanIndicators(eco, ecosystem, entries[i].Path, 1)
             ELSE eco,
             ecosystem, entries, i + 1)

\* the ecosystems map when the scan of the tree is over
ScanTree(entries) ==
    LET found == [t \in Range(EcosystemTags) |-> ScanEntries(None, t, entries, 1)]
    IN  [t \in {u \in Range(EcosystemTags) : found[u] # None} |-> found[t][1]]

\* SortInner that compares position i with the next position only
SortInnerAdjacent(result, i, j) ==
    IF j > Len(result) THEN result
    ELSE IF result[j].Confidence > result[i].Confidence
         THEN [result EXCEPT ![i] = result[j], ![j] = result[i]]
         ELSE result

\* the swap sort at the end of Detect: position i takes the entry of a later
\* position j whenever that one has a strictly greater confidence
RECURSIVE SortInner(_, _, _)
SortInner(result, i, j) ==
    IF j > Len(result) THEN result
    ELSE SortInner(
             IF result[j].Confidence > result[i].Confidence
             THEN [result EXCEPT ![i] = result[j], ![j] = result[i]]
             ELSE result,
             i, j + 1)

RECURSIVE SortByConfidence(_, _)
SortByConfidence(result, i) ==
    IF i > Len(result) - 1 THEN result
    ELSE SortByConfidence(SortInner(result, i, i + 1), i + 1)

\* the orders in which a range over a Go map with the key set K may run
MapOrders(K) ==
    {o \in [1..Cardinality(K) -> K] : \A i, j \in DOMAIN o : i # j => o[i] # o[j]}

\* the lists Detect may return for a tree: the map entries, collected in the
\* order the runtime iterates the map, then sorted by confidence
DetectResults(entries) ==
    LET ecosystems == ScanTree(entries)
    IN  {SortByConfidence([i \in DOMAIN o |-> ecosystems[o[i]]], 1) :
             o \in MapOrders(DOMAIN ecosystems)}

\* HasExclusionTopic that looks at the first topic only
HasExclusionTopicFirstOnly(topics) ==
    topics # <<>> /\ topics[1] \in {"no-dependabot", "skip-dependabot", "exclude-dependabot"}

HasExclusionTopic(topics) ==
    LET excludeTags == <<"no-dependabot", "skip-dependabot", "exclude-dependabot">>
    IN  \E i \in DOMAIN topics : \E j \in DOMAIN excludeTags : topics[i] = excludeTags[j]

(***************************************************************************)
(* internal/config: the configuration document and its equality predicate. *)
(***************************************************************************)
\* the zero value of config.DependabotUpdate
DependabotUpdate ==
    [PackageEcosystem |-> "", Directory |-> "",
     Schedule |-> [Interval |-> "", Day |-> "", Time |-> "", Timezone |-> ""],
     OpenPullRequestsLimit |-> 0,
     Labels |-> <<>>, Reviewers |-> <<>>, Assignees |-> <<>>, Milestone |-> 0,
     Groups |-> None, VersioningStrategy |-> "", CommitMessage |-> None,
     TargetBranch |-> "", Vendor |-> FALSE, Insecure |-> <<>>,
     RebaseStrategy |-> "", Ignore |-> <<>>, Allow |-> <<>>, Registries |-> <<>>]

\* (*DependabotUpdate).Equal
UpdateEqual(u, other) ==
    /\ u.PackageEcosystem = other.PackageEcosystem
    /\ u.Directory = other.Directory
    /\ u.Schedule.Interval = other.Schedule.Interval
    /\ u.OpenPullRequestsLimit = other.OpenPullRequestsLimit

\* (*DependabotConfig).Equal; c and other are None (nil) or Some(document)
ConfigEqual(c, other) ==
    IF c = None /\ other = None THEN TRUE
    ELSE IF c = None \/ other = None THEN FALSE
    ELSE IF c[1].Version # other[1].Version THEN FALSE
    ELSE IF Len(c[1].Updates) # Len(other[1].Updates) THEN FALSE
    ELSE \A i \in DOMAIN c[1].Updates : UpdateEqual(c[1].Updates[i], other[1].Updates[i])

(***************************************************************************)
(* internal/merger: the merge engine.                                      *)
(***************************************************************************)
isRootOnlyEcosystem(ecosystem) ==
    ecosystem \in {"github-actions", "docker", "terraform", "gitsubmodule"}

\* index of the rule findUpdate returns a pointer to, 0 for nil
findUpdate(updates, ecosystem, directory) ==
    LET hit(i) == /\ updates[i].PackageEcosystem = ecosystem
                  /\ \/ ecosystem \in {"github-actions", "docker", "terraform", "gitsubmodule"}
                     \/ updates[i].Directory = directory
        H == {i \in DOMAIN updates : hit(i)}
    IN  IF H = {} THEN 0 ELSE CHOOSE i \in H : \A j \in H : i <= j

\* the loop of mergeStringSlices over one slice, seen items being those of result
RECURSIVE AppendUnseen(_, _)
AppendUnseen(result, items) ==
    IF items = <<>> THEN result
    ELSE AppendUnseen(
             IF Head(items) \in Range(result) THEN result ELSE Append(result, Head(items)),
             Tail(items))

\* mergeStringSlices without the seen set
mergeStringSlicesAppend(a, b) == a \o b

mergeStringSlices(a, b) == AppendUnseen(AppendUnseen(<<>>, a), b)

\* number of entries of a map that may be nil
MapLen(m) == IF m = None THEN 0 ELSE Cardinality(DOMAIN m[1])

\* OverlayGroups that keeps the existing group of a name both maps hold
OverlayGroupsKeepExisting(groups, tmplGroups) ==
    [name \in DOMAIN groups \cup DOMAIN tmplGroups |->
        IF name \in DOMAIN groups THEN groups[name] ELSE tmplGroups[name]]

\* merged.Groups[name] = group for every entry of the template's map
OverlayGroups(groups, tmplGroups) ==
    [name \in DOMAIN groups \cup DOMAIN tmplGroups |->
        IF name \in DOMAIN tmplGroups THEN tmplGroups[name] ELSE groups[name]]

\* mergeUpdate that starts from the template and takes over the existing
\* rule's ecosystem and directory only
mergeUpdateFromTemplate(existing, template) ==
    [template EXCEPT
        !.PackageEcosystem = existing.PackageEcosystem,
        !.Directory = existing.Directory,
        !.Labels = mergeStringSlices(existing.Labels, template.Labels),
        !.Reviewers = mergeStringSlices(existing.Reviewers, template.Reviewers),
        !.Assignees = mergeStringSlices(existing.Assignees, template.Assignees)]

\* mergeUpdate that replaces limit and versioning strategy whatever the
\* template holds
mergeUpdateTemplateWins(existing, template) ==
    [existing EXCEPT
        !.Schedule = template.Schedule,
        !.OpenPullRequestsLimit = template.OpenPullRequestsLimit,
        !.Labels = mergeStringSlices(existing.Labels, template.Labels),
        !.Reviewers = mergeStringSlices(existing.Reviewers, template.Reviewers),
        !.Assignees = mergeStringSlices(existing.Assignees, template.Assignees),
        !.VersioningStrategy = template.VersioningStrategy]

\* mergeUpdate that takes the template's commit message whenever the template
\* has one
mergeUpdateCommitFromTemplate(existing, template) ==
    [existing EXCEPT
        !.Schedule = template.Schedule,
        !.Labels = mergeStringSlices(existing.Labels, template.Labels),
        !.Reviewers = mergeStringSlices(existing.Reviewers, template.Reviewers),
        !.Assignees = mergeStringSlices(existing.Assignees, template.Assignees),
        !.CommitMessage = IF template.CommitMessage # None THEN template.CommitMessage ELSE @]

\* the value mergeUpdate returns
mergeUpdate(existing, template) ==
    [existing EXCEPT
        !.Schedule = template.Schedule,
        !.OpenPullRequestsLimit =
            IF template.OpenPullRequestsLimit > 0
            THEN template.OpenPullRequestsLimit ELSE @,
        !.Labels = mergeStringSlices(existing.Labels, template.Labels),
        !.Reviewers = mergeStringSlices(existing.Reviewers, template.Reviewers),
        !.Assignees = mergeStringSlices(existing.Assignees, template.Assignees),
        !.VersioningStrategy =
            IF template.VersioningStrategy # ""
            THEN template.VersioningStrategy ELSE @,
        !.Groups =
            IF MapLen(template.Groups) > 0
            THEN Some(OverlayGroups(IF @ = None THEN <<>> ELSE @[1], template.Groups[1]))
            ELSE @,
        !.CommitMessage =
            IF @ = None /\ template.CommitMessage # None
            THEN template.CommitMessage ELSE @]

\* UpdateLess without the comparison of the directories
UpdateLessEcosystemOnly(a, b) ==
    StrLess(a.PackageEcosystem, b.PackageEcosystem)

\* the less function of sortUpdates
UpdateLess(a, b) ==
    IF a.PackageEcosystem # b.PackageEcosystem
    THEN StrLess(a.PackageEcosystem, b.PackageEcosystem)
    ELSE StrLess(a.Directory, b.Directory)

\* sort.Slice on a slice of at most 12 elements is an insertion sort:
\* element i moves down while it is less than its left neighbour
RECURSIVE InsertDown(_, _)
InsertDown(updates, j) ==
    IF j > 1 /\ UpdateLess(updates[j], updates[j - 1])
    THEN InsertDown([updates EXCEPT ![j] = updates[j - 1], ![j - 1] = updates[j]], j - 1)
    ELSE updates

RECURSIVE InsertionSort(_, _)
InsertionSort(updates, i) ==
    IF i > Len(updates) THEN updates
    ELSE InsertionSort(InsertDown(updates, i), i + 1)

sortUpdates(updates) == InsertionSort(updates, 2)

\* the rule createFromTemplates makes up for an ecosystem without a template
BasicUpdate(eco, dir) ==
    [DependabotUpdate EXCEPT
        !.PackageEcosystem = eco.Type,
        !.Directory = dir,
        !.Schedule.Interval = "weekly",
        !.OpenPullRequestsLimit = 10,
        !.Labels = <<"dependencies">>]

\* FromTemplate that leaves the template's directory in place
FromTemplateKeepDirectory(template, dir) ==
    template.Updates

\* one copy of every rule of a template, its directory overwritten
FromTemplate(template, dir) ==
    [k \in DOMAIN template.Updates |-> [template.Updates[k] EXCEPT !.Directory = dir]]

RECURSIVE Flatten(_)
Flatten(seqs) == IF seqs = <<>> THEN <<>> ELSE Head(seqs) \o Flatten(Tail(seqs))

\* createFromTemplates; templates is the map m.templates
createFromTemplates(templates, ecosystems) ==
    LET forEco(eco) ==
            IF eco.Name \notin DOMAIN templates
            THEN [j \in DOMAIN eco.Directories |-> BasicUpdate(eco, eco.Directories[j])]
            ELSE Flatten([j \in DOMAIN eco.Directories |->
                             FromTemplate(templates[eco.Name], eco.Directories[j])])
    IN  [Version |-> 2,
         Updates |-> sortUpdates(Flatten([i \in DOMAIN ecosystems |-> forEco(ecosystems[i])]))]

\* the directories of the configs directory loadTemplates looks into, in the
\* order of its list
TemplateDirs ==
    << "npm", "golang", "python", "docker", "maven", "gradle", "bundler",
       "cargo", "composer", "nuget", "github-actions" >>

\* for _, eco := range ecosystems, from directory k on: dir maps the
\* directories that hold a readable default.yml to the document it parses to
RECURSIVE loadTemplatesFrom(_, _, _)
loadTemplatesFrom(dir, m, k) ==
    IF k > Len(TemplateDirs) THEN m
    ELSE LET eco == TemplateDirs[k]
             ecosystemName == IF eco = "golang" THEN "gomod" ELSE eco
         IN  loadTemplatesFrom(
                 dir,
                 IF eco \notin DOMAIN dir THEN m
                 ELSE [n \in DOMAIN m \cup {ecosystemName} |->
                          IF n = ecosystemName THEN dir[eco] ELSE m[n]],
                 k + 1)

\* loadTemplates: the map m.templates
loadTemplates(dir) == loadTemplatesFrom(dir, <<>>, 1)

(***************************************************************************)
(* Merge with an existing document.  mergeUpdate copies the existing rule  *)
(* by value, so the copy shares the rule's Groups map when that map is not *)
(* nil, and writes the template's groups into it.  The work state of Merge *)
(* is therefore                                                            *)
(*    ex  : existing.Updates as they are now (their Groups maps may have   *)
(*          been written), and                                             *)
(*    out : merged.Updates, each entry a rule u with ref, the index of the *)
(*          existing rule whose Groups map u.Groups points to (0: none).   *)
(***************************************************************************)
\* for _, tmplUpdate := range template.Updates, matched branch, from rule k on
RECURSIVE MergeMatched(_, _, _, _, _, _)
MergeMatched(st, idx, eco, dir, tmplUpdates, k) ==
    IF k > Len(tmplUpdates) THEN st
    ELSE LET existingUpdate == st.ex[idx]
             shared == existingUpdate.Groups # None
             m == mergeUpdate(existingUpdate, tmplUpdates[k])
             mergedUpdate ==
                 [m EXCEPT !.Directory = IF isRootOnlyEcosystem(eco.Type) THEN "/" ELSE dir]
         IN  MergeMatched(
                 [ex |-> IF shared THEN [st.ex EXCEPT ![idx].Groups = m.Groups] ELSE st.ex,
                  out |-> Append(st.out, [u |-> mergedUpdate,
                                          ref |-> IF shared THEN idx ELSE 0])],
                 idx, eco, dir, tmplUpdates, k + 1)

\* for _, dir := range eco.Directories, from directory j on
RECURSIVE MergeDirs(_, _, _, _)
MergeDirs(st, eco, template, j) ==
    IF j > Len(eco.Directories) THEN st
    ELSE LET dir == eco.Directories[j]
             idx == findUpdate(st.ex, eco.Type, dir)
             fresh == FromTemplate(template, dir)
         IN  MergeDirs(
                 IF idx # 0
                 THEN MergeMatched(st, idx, eco, dir, template.Updates, 1)
                 ELSE [st EXCEPT !.out =
                          @ \o [k \in DOMAIN fresh |-> [u |-> fresh[k], ref |-> 0]]],
                 eco, template, j + 1)

\* for _, eco := range ecosystems, from ecosystem i on
RECURSIVE MergeEcos(_, _, _, _)
MergeEcos(st, templates, ecosystems, i) ==
    IF i > Len(ecosystems) THEN st
    ELSE LET eco == ecosystems[i]
         IN  MergeEcos(
                 IF eco.Name \notin DOMAIN templates THEN st
                 ELSE MergeDirs(st, eco, templates[eco.Name], 1),
                 templates, ecosystems, i + 1)

\* the inner loop of the carry-forward: is existingUpdate covered by merged.Updates
Covered(out, existingUpdate) ==
    \E k \in DOMAIN out :
        IF isRootOnlyEcosystem(existingUpdate.PackageEcosystem)
        THEN out[k].u.PackageEcosystem = existingUpdate.PackageEcosystem
        ELSE /\ out[k].u.PackageEcosystem = existingUpdate.PackageEcosystem
             /\ out[k].u.Directory = existingUpdate.Directory

\* for _, existingUpdate := range existing.Updates, from rule i on
RECURSIVE CarryForward(_, _)
CarryForward(st, i) ==
    IF i > Len(st.ex) THEN st
    ELSE LET existingUpdate == st.ex[i]
             kept == IF isRootOnlyEcosystem(existingUpdate.PackageEcosystem)
                     THEN [existingUpdate EXCEPT !.Directory = "/"]
                     ELSE existingUpdate
         IN  CarryForward(
                 IF Covered(st.out, existingUpdate) THEN st
                 ELSE [st EXCEPT !.out =
                          Append(@, [u |-> kept,
                                     ref |-> IF existingUpdate.Groups # None THEN i ELSE 0])],
                 i + 1)

\* merged.Updates as values: a rule that shares a Groups map shows the map's
\* final content
Resolve(st) ==
    [k \in DOMAIN st.out |->
        IF st.out[k].ref = 0 THEN st.out[k].u
        ELSE [st.out[k].u EXCEPT !.Groups = st.ex[st.out[k].ref].Groups]]

\* Merge: existing is None (nil) or Some(document).  The result holds the
\* document returned and the existing document as the call leaves it.
Merge(templates, existing, ecosystems) ==
    IF existing = None
    THEN [merged |-> createFromTemplates(templates, ecosystems), existing |-> None]
    ELSE LET st0 == [ex |-> existing[1].Updates, out |-> <<>>]
             st == CarryForward(MergeEcos(st0, templates, ecosystems, 1), 1)
         IN  [merged |-> [Version |-> 2, Updates |-> sortUpdates(Resolve(st))],
              existing |-> Some([existing[1] EXCEPT !.Updates = st.ex])]

(***************************************************************************)
(* Inputs: the repository trees, stored configurations, template           *)
(* directories, topics and options the runs are drawn from.                *)
(***************************************************************************)
SampleEntries ==
    { [Type |-> "blob", Path |-> <<"package-lock", ".", "json">>],
      [Type |-> "blob", Path |-> <<"packages", "/", "ui", "/", "package", ".", "json">>],
      [Type |-> "blob", Path |-> <<"go", ".", "sum">>],
      [Type |-> "blob", Path |-> <<"deploy", "/", "Dockerfile", ".", "prod">>] }

\* a tree lists every path once
Trees ==
    UNION {{t \in [1..n -> SampleEntries] : \A i, j \in 1..n : i # j => t[i] # t[j]} :
              n \in 0..MaxTree}

\* template rules, as the files configs/<ecosystem>/default.yml hold them
tmplNpm ==
    [DependabotUpdate EXCEPT
        !.PackageEcosystem = "npm", !.Directory = "/src",
        !.Schedule = [Interval |-> "weekly", Day |-> "monday", Time |-> "04:00", Timezone |-> ""],
        !.OpenPullRequestsLimit = 10,
        !.Labels = <<"automated", "npm">>,
        !.Reviewers = <<"security-team">>,
        !.VersioningStrategy = "increase",
        !.Groups = Some("dev-dependencies" :> [DependencyType |-> "development", Patterns |-> <<>>])]

\* a rule that leaves limit and versioning strategy unset, and sets the fields
\* a repository keeps for itself
tmplNpmProd ==
    [DependabotUpdate EXCEPT
        !.PackageEcosystem = "npm", !.Directory = "/",
        !.Schedule.Interval = "daily",
        !.Labels = <<"automated">>,
        !.Assignees = <<"bot", "user1">>,
        !.Groups = Some("production" :> [DependencyType |-> "production", Patterns |-> <<"*">>]),
        !.CommitMessage = Some([Prefix |-> "deps", PrefixDevelopment |-> "", Include |-> "scope"]),
        !.TargetBranch = "main",
        !.Vendor = TRUE,
        !.Insecure = <<"deny">>,
        !.Ignore = <<[DependencyName |-> "left-pad", Versions |-> <<>>, UpdateTypes |-> <<>>]>>,
        !.Allow = <<[DependencyName |-> "", DependencyType |-> "production"]>>,
        !.Registries = <<"mirror">>]

tmplDocker ==
    [DependabotUpdate EXCEPT
        !.PackageEcosystem = "docker", !.Directory = "/",
        !.Schedule.Interval = "monthly",
        !.OpenPullRequestsLimit = 5,
        !.Labels = <<"dependencies", "docker">>]

tmplGomod ==
    [DependabotUpdate EXCEPT
        !.PackageEcosystem = "gomod", !.Directory = "/",
        !.Schedule.Interval = "weekly",
        !.OpenPullRequestsLimit = 10,
        !.Labels = <<"dependencies", "go">>]

Template(updates) == [Version |-> 2, Updates |-> updates]

\* the maps m.templates the runs are drawn from
TemplateMaps ==
    { <<>>,
      ("npm" :> Template(<<tmplNpm>>)) @@ ("docker" :> Template(<<tmplDocker>>))
          @@ ("gomod" :> Template(<<tmplGomod>>)),
      ("npm" :> Template(<<tmplNpm, tmplNpmProd>>)) @@ ("docker" :> Template(<<tmplDocker>>)),
      ("npm" :> Template(<<tmplNpm, tmplDocker>>)),
      ("npm" :> Template(<<tmplNpmProd>>)) }

\* the configs directory that loads to a template map: the gomod template is
\* the file of the directory golang
ConfigDirOf(m) ==
    LET dirName(n) == IF n = "gomod" THEN "golang" ELSE n
        tag(d) == IF d = "golang" THEN "gomod" ELSE d
    IN  [d \in {dirName(n) : n \in DOMAIN m} |-> m[tag(d)]]

\* the configs directories the runs are drawn from
ConfigDirs == {ConfigDirOf(m) : m \in TemplateMaps}

\* rules of stored configurations
ruleCustom ==
    [DependabotUpdate EXCEPT
        !.PackageEcosystem = "npm", !.Directory = "/",
        !.Schedule.Interval = "daily",
        !.OpenPullRequestsLimit = 5,
        !.Labels = <<"dependencies", "custom">>,
        !.Reviewers = <<"user1">>,
        !.Assignees = <<"user1", "user1">>,
        !.Milestone = 3,
        !.Groups = Some(("repo-group" :> [DependencyType |-> "", Patterns |-> <<"react*">>])
                        @@ ("production" :> [DependencyType |-> "production",
                                             Patterns |-> <<"express">>])),
        !.VersioningStrategy = "lockfile-only",
        !.CommitMessage = Some([Prefix |-> "chore", PrefixDevelopment |-> "", Include |-> ""]),
        !.TargetBranch = "develop",
        !.Vendor = TRUE,
        !.Insecure = <<"allow">>,
        !.RebaseStrategy = "disabled",
        !.Ignore = <<[DependencyName |-> "lodash", Versions |-> <<"4.x">>, UpdateTypes |-> <<>>]>>,
        !.Allow = <<[DependencyName |-> "", DependencyType |-> "direct"]>>,
        !.Registries = <<"npm-private">>]

\* a rule a run with the npm template has written, after the repository
\* changed its labels and target branch
ruleDrifted ==
    [tmplNpm EXCEPT !.Directory = "/", !.Labels = <<"custom">>, !.TargetBranch = "next"]

\* the rule a run with the npm template has written for /packages/ui
ruleUi == [tmplNpm EXCEPT !.Directory = "/packages/ui"]

ruleDocker ==
    [DependabotUpdate EXCEPT
        !.PackageEcosystem = "docker", !.Directory = "/deploy",
        !.Schedule.Interval = "monthly",
        !.OpenPullRequestsLimit = 3,
        !.Labels = <<"infra">>,
        !.TargetBranch = "release"]

\* an ecosystem the detector does not know
ruleSwift ==
    [DependabotUpdate EXCEPT
        !.PackageEcosystem = "swift", !.Directory = "/",
        !.Schedule.Interval = "weekly",
        !.OpenPullRequestsLimit = 5]

ExistingRules == {ruleCustom, ruleDrifted, ruleUi, ruleDocker, ruleSwift}

\* what .github/dependabot.yml may hold: nothing, or a document of some rules
StoredConfigs ==
    {None} \cup
    {Some([Version |-> 2, Updates |-> u]) :
        u \in UNION {{d \in [1..n -> ExistingRules] : \A i, j \in 1..n : i # j => d[i] # d[j]} :
                        n \in 0..MaxExisting}}

TopicLists == {<<>>, <<"frontend", "skip-dependabot">>}

\* topics a repository may carry: the exclusion topics and two others, one of
\* them a part of an exclusion topic
TopicNames ==
    {"no-dependabot", "skip-dependabot", "exclude-dependabot", "frontend", "dependabot"}

\* opts.excludeTopics when -exclude-topics is not given: parseCSV of the
\* flag's default
DefaultExcludeTopics == <<"no-dependabot", "skip-dependabot">>

\* opts.excludeTopics of the runs that look at the exclusion: the default and
\* -exclude-topics=frontend
ExcludeTopicsOptions == {DefaultExcludeTopics, <<"frontend">>}

\* repo.Topics of up to MaxTopics topics, in any order, repeats included
AllTopicLists == UNION {[1..n -> TopicNames] : n \in 0..MaxTopics}

(***************************************************************************)
(* cmd: Synchronizer.processRepository for one repository, one action per  *)
(* stretch of code between two calls to the remote API.                    *)
(***************************************************************************)
VARIABLES
    tree,            \* tree.Entries of the repository's HEAD
    topics,          \* repo.Topics
    templates,       \* m.templates, loaded before the run
    stored,          \* .github/dependabot.yml in the repository: None or Some(document)
    options,         \* the command-line options dryRun, createPR and excludeTopics
    pc,              \* where processRepository stands
    ecosystems,      \* local variable ecosystems
    existingConfig,  \* local variable existingConfig: None or Some(document)
    mergedConfig,    \* local variable mergedConfig: None until Merge has returned
    report,          \* the record the reporter holds for the repository: None or Some
    writes,          \* the calls that change the repository, in order
    configDir,       \* the directories of opts.configDir that hold a default.yml
    repos,           \* Run: the repositories getRepositories returned
    outcomes,        \* Run: for each repository, the ways processRepository may go
    concurrency,     \* opts.concurrency, the capacity of s.semaphore
    runPc,           \* Run: where the main goroutine stands
    semaphore,       \* the number of values in the channel s.semaphore
    wg,              \* the counter of s.wg
    workers,         \* the goroutines of processRepository, one per repository
    runReport,       \* r.report: the summary counters and the detail records
    crashed          \* the runtime has stopped the process with a fatal error

vars == <<tree, topics, templates, stored, options, pc, ecosystems,
          existingConfig, mergedConfig, report, writes, configDir,
          repos, outcomes, concurrency, runPc, semaphore, wg, workers, runReport,
          crashed>>

inputs == <<tree, topics, templates, options, configDir>>

\* the state of Synchronizer.Run and its goroutines
run == <<repos, outcomes, concurrency, runPc, semaphore, wg, workers, runReport, crashed>>

\* the state of the pipeline of a single repository
single == <<tree, topics, stored, pc, ecosystems, existingConfig, mergedConfig,
            report, writes>>

\* Run has not been started
RunIdle ==
    /\ repos = <<>>
    /\ outcomes = <<>>
    /\ concurrency = 1
    /\ runPc = "idle"
    /\ semaphore = 0
    /\ wg = 0
    /\ workers = <<>>
    /\ runReport = [TotalRepositories |-> 0, ConfiguredRepositories |-> 0,
                    UpdatedRepositories |-> 0, SkippedRepositories |-> 0,
                    FailedRepositories |-> 0, RepositoryDetails |-> <<>>]
    /\ crashed = FALSE

Init ==
    /\ tree \in Trees
    /\ topics \in TopicLists
    /\ configDir \in ConfigDirs
    /\ templates = loadTemplates(configDir)
    /\ RunIdle
    /\ stored \in StoredConfigs
    /\ options \in [dryRun : BOOLEAN, createPR : BOOLEAN,
                    excludeTopics : {DefaultExcludeTopics}]
    /\ pc = "exclusion"
    /\ ecosystems = <<>>
    /\ existingConfig = None
    /\ mergedConfig = None
    /\ report = None
    /\ writes = <<>>

\* r.AddRepository, as far as one repository's record goes
AddRepository(status, ecos, skipReason) ==
    report' = Some([Status |-> status, DetectedEcosystems |-> ecos, SkipReason |-> skipReason])

\* CheckExclusion that goes on to detection whatever the topics are
CheckExclusionIgnored ==
    /\ pc = "exclusion"
    /\ pc' = "detect"
    /\ UNCHANGED <<inputs, run, stored, ecosystems, existingConfig, mergedConfig, report, writes>>

\* lines 169-176: the exclusion topics
CheckExclusion ==
    /\ pc = "exclusion"
    /\ IF HasExclusionTopic(topics)
       THEN /\ AddRepository("skipped", <<>>, "has exclusion topic")
            /\ pc' = "done"
       ELSE /\ pc' = "detect"
            /\ UNCHANGED report
    /\ UNCHANGED <<inputs, run, stored, ecosystems, existingConfig, mergedConfig, writes>>

\* lines 178-192: Detect returns a list
DetectOk ==
    /\ pc = "detect"
    /\ \E result \in DetectResults(tree) :
          /\ ecosystems' = result
          /\ IF Len(result) = 0
             THEN /\ AddRepository("skipped", <<>>, "no supported ecosystems detected")
                  /\ pc' = "done"
             ELSE /\ pc' = "fetch"
                  /\ UNCHANGED report
    /\ UNCHANGED <<inputs, run, stored, existingConfig, mergedConfig, writes>>

\* lines 179-184: GetTree fails and Detect returns the error
DetectFails ==
    /\ pc = "detect"
    /\ AddRepository("failed", <<>>, "")
    /\ pc' = "done"
    /\ UNCHANGED <<inputs, run, stored, ecosystems, existingConfig, mergedConfig, writes>>

\* lines 194-200: GetExistingConfig returns the stored document or nil
GetExistingOk ==
    /\ pc = "fetch"
    /\ existingConfig' = stored
    /\ pc' = "merge"
    /\ UNCHANGED <<inputs, run, stored, ecosystems, mergedConfig, report, writes>>

\* lines 195-200: GetExistingConfig fails
GetExistingFails ==
    /\ pc = "fetch"
    /\ AddRepository("failed", <<>>, "")
    /\ pc' = "done"
    /\ UNCHANGED <<inputs, run, stored, ecosystems, existingConfig, mergedConfig, writes>>

\* lines 202-212: Merge, then the check whether an update is needed
MergeAndCompare ==
    /\ pc = "merge"
    /\ LET r == Merge(templates, existingConfig, ecosystems)
       IN  /\ mergedConfig' = Some(r.merged)
           /\ existingConfig' = r.existing
           /\ IF r.existing # None /\ ConfigEqual(r.existing, Some(r.merged))
              THEN /\ AddRepository("configured", ecosystems, "")
                   /\ pc' = "done"
              ELSE /\ pc' = "apply"
                   /\ UNCHANGED report
    /\ UNCHANGED <<inputs, run, stored, ecosystems, writes>>

\* lines 214-223 with dryRun: nothing is applied
ApplyDryRun ==
    /\ pc = "apply"
    /\ options.dryRun
    /\ AddRepository("updated", ecosystems, "")
    /\ pc' = "done"
    /\ UNCHANGED <<inputs, run, stored, ecosystems, existingConfig, mergedConfig, writes>>

\* lines 214-223 and applyConfiguration: a pull request with the merged
\* document is opened, or the document is committed to the default branch
ApplyOk ==
    /\ pc = "apply"
    /\ ~options.dryRun
    /\ IF options.createPR
       THEN /\ writes' = Append(writes, [call |-> "CreatePullRequest", config |-> mergedConfig[1]])
            /\ UNCHANGED stored
       ELSE /\ writes' = Append(writes, [call |-> "CreateOrUpdateFile", config |-> mergedConfig[1]])
            /\ stored' = mergedConfig
    /\ AddRepository("updated", ecosystems, "")
    /\ pc' = "done"
    /\ UNCHANGED <<inputs, run, ecosystems, existingConfig, mergedConfig>>

\* lines 216-220: applyConfiguration fails
ApplyFails ==
    /\ pc = "apply"
    /\ ~options.dryRun
    /\ AddRepository("failed", <<>>, "")
    /\ pc' = "done"
    /\ UNCHANGED <<inputs, run, stored, ecosystems, existingConfig, mergedConfig, writes>>

Next ==
    \/ CheckExclusion
    \/ DetectOk
    \/ DetectFails
    \/ GetExistingOk
    \/ GetExistingFails
    \/ MergeAndCompare
    \/ ApplyDryRun
    \/ ApplyOk
    \/ ApplyFails

Spec == Init /\ [][Next]_vars

\* processRepository for repositories of every topic list, with one set of
\* templates and with or without a stored document
InitTopics ==
    /\ tree \in Trees
    /\ topics \in AllTopicLists
    /\ configDir = ("npm" :> Template(<<tmplNpm>>)) @@ ("docker" :> Template(<<tmplDocker>>))
                       @@ ("golang" :> Template(<<tmplGomod>>))
    /\ templates = loadTemplates(configDir)
    /\ RunIdle
    /\ stored \in {None, Some([Version |-> 2, Updates |-> <<ruleCustom>>])}
    /\ options \in [dryRun : BOOLEAN, createPR : BOOLEAN,
                    excludeTopics : ExcludeTopicsOptions]
    /\ pc = "exclusion"
    /\ ecosystems = <<>>
    /\ existingConfig = None
    /\ mergedConfig = None
    /\ report = None
    /\ writes = <<>>

SpecTopics == InitTopics /\ [][Next]_vars

\* tree entries for the detector: indicator files at the root and below it,
\* workflow files, a file no indicator names and a directory
DetectEntries ==
    { [Type |-> "blob", Path |-> <<"package-lock", ".", "json">>],
      [Type |-> "blob", Path |-> <<"package", ".", "json">>],
      [Type |-> "blob", Path |-> <<"packages", "/", "ui", "/", "package", ".", "json">>],
      [Type |-> "blob", Path |-> <<"go", ".", "mod">>],
      [Type |-> "blob", Path |-> <<"setup", ".", "py">>],
      [Type |-> "blob", Path |-> <<"deploy", "/", "Dockerfile", ".", "prod">>],
      [Type |-> "blob", Path |-> <<".", "github", "/", "workflows", "/", "ci", ".", "yml">>],
      [Type |-> "blob",
       Path |-> <<".", "github", "/", "workflows", "/", "sub", "/", "ci", ".", "yml">>],
      [Type |-> "tree", Path |-> <<"Gemfile">>] }

DetectTrees ==
    UNION {{t \in [1..n -> DetectEntries] : \A i, j \in 1..n : i # j => t[i] # t[j]} :
              n \in 0..MaxDetectTree}

\* processRepository for repositories of the detector's trees, without a
\* stored document
InitDetect ==
    /\ tree \in DetectTrees
    /\ topics = <<>>
    /\ configDir = ("npm" :> Template(<<tmplNpm>>)) @@ ("docker" :> Template(<<tmplDocker>>))
                       @@ ("golang" :> Template(<<tmplGomod>>))
    /\ templates = loadTemplates(configDir)
    /\ RunIdle
    /\ stored = None
    /\ options \in [dryRun : BOOLEAN, createPR : {FALSE},
                    excludeTopics : {DefaultExcludeTopics}]
    /\ pc = "exclusion"
    /\ ecosystems = <<>>
    /\ existingConfig = None
    /\ mergedConfig = None
    /\ report = None
    /\ writes = <<>>

SpecDetect == InitDetect /\ [][Next]_vars

\* a template of the directory configs/python
tmplPip ==
    [DependabotUpdate EXCEPT
        !.PackageEcosystem = "pip", !.Directory = "/",
        !.Schedule.Interval = "daily",
        !.OpenPullRequestsLimit = 3,
        !.Labels = <<"dependencies", "python">>]

\* the files default.yml a configs directory may hold, by directory
LoadFiles ==
    ("npm" :> Template(<<tmplNpm>>)) @@ ("golang" :> Template(<<tmplGomod>>))
        @@ ("python" :> Template(<<tmplPip>>)) @@ ("docker" :> Template(<<tmplDocker>>))

\* the configs directories with any of these files
LoadDirs == {[d \in D |-> LoadFiles[d]] : D \in SUBSET DOMAIN LoadFiles}

\* files at the root of a repository, one per ecosystem of LoadFiles
LoadEntries ==
    { [Type |-> "blob", Path |-> <<"package-lock", ".", "json">>],
      [Type |-> "blob", Path |-> <<"go", ".", "sum">>],
      [Type |-> "blob", Path |-> <<"requirements", ".", "txt">>],
      [Type |-> "blob", Path |-> <<"Dockerfile">>] }

LoadTrees ==
    UNION {{t \in [1..n -> LoadEntries] : \A i, j \in 1..n : i # j => t[i] # t[j]} :
              n \in 0..MaxTree}

\* merger.New on a configs directory with any of the template files, then
\* processRepository for a repository without a stored document
InitLoad ==
    /\ tree \in LoadTrees
    /\ topics = <<>>
    /\ configDir \in LoadDirs
    /\ templates = loadTemplates(configDir)
    /\ RunIdle
    /\ stored = None
    /\ options \in [dryRun : BOOLEAN, createPR : BOOLEAN,
                    excludeTopics : {DefaultExcludeTopics}]
    /\ pc = "exclusion"
    /\ ecosystems = <<>>
    /\ existingConfig = None
    /\ mergedConfig = None
    /\ report = None
    /\ writes = <<>>

SpecLoad == InitLoad /\ [][Next]_vars

(***************************************************************************)
(* cmd: Synchronizer.Run and its goroutines.  Run starts one goroutine of  *)
(* processRepository per repository and waits for them; a goroutine holds  *)
(* a slot of the semaphore from its first statement to its return.  What   *)
(* processRepository does between the acquire and its call of the reporter *)
(* reads and writes only that repository and the goroutine's locals, so it *)
(* is one step with the acquire; the reporter is shared and has no lock,   *)
(* so a call of AddRepository is two steps, its reads and its writes.      *)
(* The ways processRepository may go for a repository are fixed by the     *)
(* repository, the templates and the options; they are computed when the   *)
(* run starts and kept in outcomes.                                        *)
(***************************************************************************)
\* the repositories of a run: one without a configuration, one with an
\* exclusion topic, one whose configuration is what Merge returns for it
RunRepoKinds ==
    << [tree |-> <<[Type |-> "blob", Path |-> <<"package-lock", ".", "json">>]>>,
        topics |-> <<>>, stored |-> None],
       [tree |-> <<[Type |-> "blob", Path |-> <<"package-lock", ".", "json">>]>>,
        topics |-> <<"skip-dependabot">>, stored |-> None],
       [tree |-> <<[Type |-> "blob", Path |-> <<"package-lock", ".", "json">>]>>,
        topics |-> <<>>, stored |-> Some([Version |-> 2, Updates |-> <<ruleDrifted>>])] >>

\* the lists of up to MaxRepos repositories of these kinds; the goroutines
\* differ by their repository alone, so one order of the kinds stands for
\* every list with the same repositories
RunRepoLists ==
    UNION {{[i \in 1..n |-> RunRepoKinds[k[i]]] :
               k \in {f \in [1..n -> DOMAIN RunRepoKinds] :
                          \A i \in 1..(n - 1) : f[i] <= f[i + 1]}} :
           n \in 0..MaxRepos}

\* what a goroutine of processRepository knows when it calls the reporter:
\* the statement it returns from, the arguments of AddRepository, whether
\* Merge was called and the write made to the repository (None or Some)
Outcome(step, status, skipReason, ecos, err, merged, write) ==
    [Step |-> step, Status |-> status, SkipReason |-> skipReason, Ecosystems |-> ecos,
     Error |-> err, Merged |-> merged, Write |-> write]

\* applyConfiguration's call that changes the repository
ApplyCall(opts, cfg) ==
    [call |-> IF opts.createPR THEN "CreatePullRequest" ELSE "CreateOrUpdateFile",
     config |-> cfg]

\* lines 214-223 without the test of the dry-run option
ApplyOutcomesAlways(opts, ecos, cfg) ==
    { Outcome("end", "updated", "", ecos, None, TRUE, Some(ApplyCall(opts, cfg))),
      Outcome("apply", "failed", "", <<>>, Some(<<"apply failed">>), TRUE, None) }

\* lines 214-223: the configuration is applied unless the run is a dry run
ApplyOutcomes(opts, ecos, cfg) ==
    IF opts.dryRun
    THEN { Outcome("end", "updated", "", ecos, None, TRUE, None) }
    ELSE { Outcome("end", "updated", "", ecos, None, TRUE, Some(ApplyCall(opts, cfg))),
           Outcome("apply", "failed", "", <<>>, Some(<<"apply failed">>), TRUE, None) }

\* lines 186-223 for a list Detect returned
DetectedOutcomes(tmpl, opts, repo, ecos) ==
    IF Len(ecos) = 0
    THEN { Outcome("empty", "skipped", "no supported ecosystems detected", <<>>, None,
                   FALSE, None) }
    ELSE { Outcome("fetch", "failed", "", <<>>, Some(<<"get config failed">>), FALSE, None) }
         \cup
         LET r == Merge(tmpl, repo.stored, ecos)
         IN  IF r.existing # None /\ ConfigEqual(r.existing, Some(r.merged))
             THEN { Outcome("compare", "configured", "", ecos, None, TRUE, None) }
             ELSE ApplyOutcomes(opts, ecos, r.merged)

\* Detect that returns the ecosystems of the tree with its error
DetectFailureWithEcosystems(repo) ==
    { Outcome("detect", "failed", "", ecos, Some(<<"failed to get tree", "GetTree error">>),
              FALSE, None) : ecos \in DetectResults(repo.tree) }

\* lines 178-184 and Detect 219-222: GetTree fails, Detect returns nil and
\* the error that wraps the cause
DetectFailure(repo) ==
    { Outcome("detect", "failed", "", <<>>, Some(<<"failed to get tree", "GetTree error">>),
              FALSE, None) }

\* lines 169-223: the ways processRepository may go for a repository, with
\* the merger's templates and the options of the run
RepoOutcomes(tmpl, opts, repo) ==
    IF HasExclusionTopic(repo.topics)
    THEN { Outcome("exclusion", "skipped", "has exclusion topic", <<>>, None, FALSE, None) }
    ELSE DetectFailure(repo)
         \cup UNION { DetectedOutcomes(tmpl, opts, repo, ecos) :
                          ecos \in DetectResults(repo.tree) }

\* the configuration directory, the templates merger.New loads from it and
\* the options of the runs
RunConfigDir ==
    ("npm" :> Template(<<tmplNpm>>)) @@ ("docker" :> Template(<<tmplDocker>>))
        @@ ("golang" :> Template(<<tmplGomod>>))

RunTemplates == loadTemplates(RunConfigDir)

RunOptions == [dryRun : BOOLEAN, createPR : BOOLEAN, excludeTopics : {DefaultExcludeTopics}]

\* reporter.New: the empty report
EmptyReport ==
    [TotalRepositories |-> 0, ConfiguredRepositories |-> 0, UpdatedRepositories |-> 0,
     SkippedRepositories |-> 0, FailedRepositories |-> 0, RepositoryDetails |-> <<>>]

\* the report AddRepository writes, from the report it read
Added(rep, name, status) ==
    [TotalRepositories |-> rep.TotalRepositories + 1,
     ConfiguredRepositories |->
         rep.ConfiguredRepositories + (IF status = "configured" THEN 1 ELSE 0),
     UpdatedRepositories |-> rep.UpdatedRepositories + (IF status = "updated" THEN 1 ELSE 0),
     SkippedRepositories |-> rep.SkippedRepositories + (IF status = "skipped" THEN 1 ELSE 0),
     FailedRepositories |-> rep.FailedRepositories + (IF status = "failed" THEN 1 ELSE 0),
     RepositoryDetails |-> Append(rep.RepositoryDetails, [Name |-> name, Status |-> status])]

\* getRepositories has returned, main has made the semaphore and the reporter
InitRun ==
    /\ repos \in RunRepoLists
    /\ concurrency \in 1..MaxConcurrency
    /\ runPc = IF Len(repos) = 0 THEN "wait" ELSE "spawn"
    /\ semaphore = 0
    /\ wg = 0
    /\ workers = <<>>
    /\ runReport = EmptyReport
    /\ crashed = FALSE
    /\ configDir = RunConfigDir
    /\ templates = RunTemplates
    /\ options \in RunOptions
    /\ outcomes = [w \in DOMAIN repos |-> RepoOutcomes(templates, options, repos[w])]
    /\ tree = <<>>
    /\ topics = <<>>
    /\ stored = None
    /\ pc = "idle"
    /\ ecosystems = <<>>
    /\ existingConfig = None
    /\ mergedConfig = None
    /\ report = None
    /\ writes = <<>>

\* lines 124-127: s.wg.Add(1); go s.processRepository(ctx, repo); after the
\* last repository the loop is over and s.wg.Wait() is called
Spawn ==
    /\ ~crashed
    /\ runPc = "spawn"
    /\ Len(workers) < Len(repos)
    /\ wg' = wg + 1
    /\ workers' = Append(workers, [pc |-> "acquire", out |-> None, seen |-> None])
    /\ runPc' = IF Len(workers') = Len(repos) THEN "wait" ELSE "spawn"
    /\ UNCHANGED <<inputs, single, repos, outcomes, concurrency, semaphore, runReport, crashed>>

\* lines 130-132: s.wg.Wait() returns when the counter is zero, Run returns
WaitReturns ==
    /\ ~crashed
    /\ runPc = "wait"
    /\ wg = 0
    /\ runPc' = "returned"
    /\ UNCHANGED <<inputs, single, repos, outcomes, concurrency, semaphore, wg, workers, runReport,
                   crashed>>

\* Acquire that sends whatever the channel holds
AcquireUnbounded(w) ==
    /\ ~crashed
    /\ workers[w].pc = "acquire"
    /\ semaphore' = semaphore + 1
    /\ \E o \in outcomes[w] :
          workers' = [workers EXCEPT ![w].pc = "report", ![w].out = Some(o)]
    /\ UNCHANGED <<inputs, single, repos, outcomes, concurrency, runPc, wg, runReport, crashed>>

\* line 160: s.semaphore <- struct{}{} blocks while the channel is full;
\* then lines 163-223 up to the call of the reporter
Acquire(w) ==
    /\ ~crashed
    /\ workers[w].pc = "acquire"
    /\ semaphore < concurrency
    /\ semaphore' = semaphore + 1
    /\ \E o \in outcomes[w] :
          workers' = [workers EXCEPT ![w].pc = "report", ![w].out = Some(o)]
    /\ UNCHANGED <<inputs, single, repos, outcomes, concurrency, runPc, wg, runReport, crashed>>

\* AddRepository 85-125: the reads of r.report
AddRepositoryLoad(w) ==
    /\ ~crashed
    /\ workers[w].pc = "report"
    /\ workers' = [workers EXCEPT ![w].pc = "store", ![w].seen = Some(runReport)]
    /\ UNCHANGED <<inputs, single, repos, outcomes, concurrency, runPc, semaphore, wg, runReport,
                   crashed>>

\* AddRepository 106-127: the writes of r.report
AddRepositoryStore(w) ==
    /\ ~crashed
    /\ workers[w].pc = "store"
    /\ runReport' = Added(workers[w].seen[1], w, workers[w].out[1].Status)
    /\ workers' = [workers EXCEPT ![w].pc = "release", ![w].seen = None]
    /\ UNCHANGED <<inputs, single, repos, outcomes, concurrency, runPc, semaphore, wg, crashed>>

\* AddRepository 105-107 in two goroutines at once: the runtime finds two
\* writers of the map EcosystemBreakdown and stops the process
ConcurrentMapWrites ==
    /\ ~crashed
    /\ \E w, v \in DOMAIN workers :
          /\ w # v
          /\ workers[w].pc = "store" /\ workers[w].out[1].Ecosystems # <<>>
          /\ workers[v].pc = "store" /\ workers[v].out[1].Ecosystems # <<>>
    /\ crashed' = TRUE
    /\ UNCHANGED <<inputs, single, repos, outcomes, concurrency, runPc, semaphore, wg, workers,
                   runReport>>

\* line 161, deferred: <-s.semaphore
Release(w) ==
    /\ ~crashed
    /\ workers[w].pc = "release"
    /\ semaphore' = semaphore - 1
    /\ workers' = [workers EXCEPT ![w].pc = "wgdone"]
    /\ UNCHANGED <<inputs, single, repos, outcomes, concurrency, runPc, wg, runReport, crashed>>

\* line 157, deferred: s.wg.Done()
Done(w) ==
    /\ ~crashed
    /\ workers[w].pc = "wgdone"
    /\ wg' = wg - 1
    /\ workers' = [workers EXCEPT ![w].pc = "done"]
    /\ UNCHANGED <<inputs, single, repos, outcomes, concurrency, runPc, semaphore, runReport, crashed>>

NextRun ==
    \/ Spawn
    \/ WaitReturns
    \/ \E w \in DOMAIN workers : Acquire(w)
    \/ \E w \in DOMAIN workers : AddRepositoryLoad(w)
    \/ \E w \in DOMAIN workers : AddRepositoryStore(w)
    \/ \E w \in DOMAIN workers : Release(w)
    \/ \E w \in DOMAIN workers : Done(w)
    \/ ConcurrentMapWrites

SpecRun == InitRun /\ [][NextRun]_vars

\* the scheduler runs every goroutine that can take a step, and every remote
\* call returns
SpecRunFair == SpecRun /\ WF_vars(NextRun)

(***************************************************************************)
(* Properties.                                                             *)
(***************************************************************************)
\* Merge has returned in this state
Merged == mergedConfig # None

\* the document Merge returned
Output == mergedConfig[1]

\* a <= b in the order of the documents: ecosystem first, then directory
KeyLeq(a, b) ==
    \/ StrLess(a.PackageEcosystem, b.PackageEcosystem)
    \/ /\ a.PackageEcosystem = b.PackageEcosystem
       /\ \/ StrLess(a.Directory, b.Directory)
          \/ a.Directory = b.Directory

RootOnlyTags == {"docker", "github-actions", "terraform", "gitsubmodule"}

\* C1: Merge is idempotent: merging the document Merge returned, as the
\* existing document, with the same detected ecosystems and templates gives a
\* document equal to it under the documents' equality predicate.
C1_MergeIdempotent ==
    Merged => ConfigEqual(Some(Merge(templates, mergedConfig, ecosystems).merged), mergedConfig)

\* C2: every rule of a root-only ecosystem in a document Merge returned has
\* the directory "/".
C2_RootOnlyAtRoot ==
    Merged => \A k \in DOMAIN Output.Updates :
                 Output.Updates[k].PackageEcosystem \in RootOnlyTags
                     => Output.Updates[k].Directory = "/"

\* C3: the rules of a document Merge returned are uniquely identified: no two
\* rules have the same ecosystem and directory, and no two rules are of the
\* same root-only ecosystem.
C3_UniqueRules ==
    Merged => \A k, l \in DOMAIN Output.Updates :
                 (/\ k # l
                  /\ Output.Updates[k].PackageEcosystem = Output.Updates[l].PackageEcosystem)
                     => /\ Output.Updates[k].Directory # Output.Updates[l].Directory
                        /\ Output.Updates[k].PackageEcosystem \notin RootOnlyTags

\* C4: the rules of a document Merge returned are in ascending order of
\* ecosystem and then directory: each rule is <= the rule after it.
C4_SortedOutput ==
    Merged => \A k \in 1..(Len(Output.Updates) - 1) :
                 KeyLeq(Output.Updates[k], Output.Updates[k + 1])

\* C4 witness: Merge returned three rules or more, and the rule of the
\* ecosystem detected first is not the first rule of the document.
C4_Witness ==
    /\ Merged
    /\ Len(Output.Updates) >= 3
    /\ Output.Updates[1].PackageEcosystem # ecosystems[1].Type
    /\ \E k \in DOMAIN Output.Updates : Output.Updates[k].PackageEcosystem = ecosystems[1].Type

\* a and e are the same rule of a document: same ecosystem and, unless the
\* ecosystem is root-only, same directory
SameKey(a, e) ==
    /\ a.PackageEcosystem = e.PackageEcosystem
    /\ \/ e.PackageEcosystem \in RootOnlyTags
       \/ a.Directory = e.Directory

\* the rules Merge makes out of the detected ecosystems, before it carries
\* existing rules forward
ProducedFromDetected ==
    LET st == MergeEcos([ex |-> stored[1].Updates, out |-> <<>>], templates, ecosystems, 1)
    IN  {st.out[k].u : k \in DOMAIN st.out}

\* an existing rule as it is carried forward
Normalized(e) ==
    IF e.PackageEcosystem \in RootOnlyTags THEN [e EXCEPT !.Directory = "/"] ELSE e

\* Merge has returned for a stored document that is still what was read
MergedExisting == Merged /\ stored # None /\ writes = <<>>

\* C5: carry-forward: every rule of the existing document that no rule made
\* from the detected ecosystems stands for is in the document Merge returned,
\* every field unchanged but the directory of a root-only rule, which is "/".
C5_CarryForward ==
    MergedExisting =>
        \A i \in DOMAIN stored[1].Updates :
            (\A p \in ProducedFromDetected : ~SameKey(p, stored[1].Updates[i]))
                => \E k \in DOMAIN Output.Updates :
                       Output.Updates[k] = Normalized(stored[1].Updates[i])

\* C6: Detect is deterministic: every list Detect can return for the tree is
\* the list it returned, order included.
C6_DetectDeterministic ==
    Len(ecosystems) > 0 => \A result \in DetectResults(tree) : result = ecosystems

\* C7: a repository is reported as configured, and left unwritten, only when
\* the merged document is the stored document in every field of every rule.
C7_ConfiguredOnlyIfSame ==
    (report # None /\ report[1].Status = "configured") => mergedConfig = stored

\* the weights of the indicators of an ecosystem that match a blob of the tree
MatchWeights(entries, ecosystem) ==
    {indicators[ecosystem][k].confidence :
        k \in {n \in DOMAIN indicators[ecosystem] :
                  \E i \in DOMAIN entries :
                      /\ entries[i].Type = "blob"
                      /\ matchesPattern(entries[i].Path, indicators[ecosystem][n].file)}}

Max(S) == CHOOSE x \in S : \A y \in S : y <= x

\* C8: the confidence of every ecosystem Detect returned is the greatest
\* weight among the indicators of that ecosystem that match a file of the tree.
C8_ConfidenceIsMax ==
    \A i \in DOMAIN ecosystems :
        LET weights == MatchWeights(tree, ecosystems[i].Type)
        IN  /\ weights # {}
            /\ ecosystems[i].Confidence = Max(weights)

\* C8 witness: Detect returned npm for a tree that lists package-lock.json
\* (weight 1.0) before a package.json (weight 0.8).
C8_Witness ==
    /\ Len(tree) = 2
    /\ tree[1].Path = <<"package-lock", ".", "json">>
    /\ MatchWeights(tree, "npm") = {8, 10}
    /\ \E i \in DOMAIN ecosystems :
          ecosystems[i].Type = "npm" /\ ecosystems[i].Confidence = 10

\* number of positions of a sequence that hold the value v
Count(seq, v) == Cardinality({k \in DOMAIN seq : seq[k] = v})

\* what Case A is to make a rule for: <<i, j, k>> for detected ecosystem i
\* with a template, directory j of it and rule k of the template; <<i, j, 0>>
\* for detected ecosystem i without a template and directory j of it
CaseAOrigins ==
    UNION {IF ecosystems[i].Name \in DOMAIN templates
           THEN {<<i, j, k>> : j \in DOMAIN ecosystems[i].Directories,
                               k \in DOMAIN templates[ecosystems[i].Name].Updates}
           ELSE {<<i, j, 0>> : j \in DOMAIN ecosystems[i].Directories} :
              i \in DOMAIN ecosystems}

\* the rule Case A is to make for an origin: the template's rule with only
\* the directory overwritten, or the default rule
CaseARule(o) ==
    IF o[3] # 0
    THEN [templates[ecosystems[o[1]].Name].Updates[o[3]]
             EXCEPT !.Directory = ecosystems[o[1]].Directories[o[2]]]
    ELSE [DependabotUpdate EXCEPT
             !.PackageEcosystem = ecosystems[o[1]].Type,
             !.Directory = ecosystems[o[1]].Directories[o[2]],
             !.Schedule.Interval = "weekly",
             !.OpenPullRequestsLimit = 10,
             !.Labels = <<"dependencies">>]

\* the sum, over the detected ecosystems, of directories x template rules
\* (x 1 for an ecosystem without a template)
CaseATotal ==
    LET n(i) == IF ecosystems[i].Name \in DOMAIN templates
                THEN Len(ecosystems[i].Directories) * Len(templates[ecosystems[i].Name].Updates)
                ELSE Len(ecosystems[i].Directories)
        sum[i \in 0..Len(ecosystems)] == IF i = 0 THEN 0 ELSE sum[i - 1] + n(i)
    IN  sum[Len(ecosystems)]

\* C9: without an existing document, Merge returns, for every detected
\* ecosystem with a template, every directory of it and every rule of the
\* template, one copy of the rule with only the directory overwritten (and one
\* default rule per directory of an ecosystem without a template), and nothing
\* else: the number of rules is the sum of directories x template rules.
C9_CaseAFromTemplates ==
    (Merged /\ existingConfig = None) =>
        /\ \A o \in CaseAOrigins :
              Count(Output.Updates, CaseARule(o))
                  = Cardinality({q \in CaseAOrigins : CaseARule(q) = CaseARule(o)})
        /\ Len(Output.Updates) = CaseATotal

\* C9 witness: npm was detected in "/" and "/packages/ui", its template has
\* one rule, there is no existing document, and Merge returned two npm rules.
C9_Witness ==
    /\ Merged /\ existingConfig = None
    /\ "npm" \in DOMAIN templates /\ Len(templates["npm"].Updates) = 1
    /\ \E i \in DOMAIN ecosystems :
          ecosystems[i].Type = "npm" /\ Range(ecosystems[i].Directories) = {"/", "/packages/ui"}
    /\ Cardinality({k \in DOMAIN Output.Updates :
                       Output.Updates[k].PackageEcosystem = "npm"}) = 2

\* every rule of every loaded template
TemplateRules ==
    UNION {Range(templates[key].Updates) : key \in DOMAIN templates}

JustMerged ==
    /\ MergedExisting
    /\ \/ pc = "apply"
       \/ pc = "done" /\ report # None /\ report[1].Status = "configured"

\* r holds the items of a and of b, each once, in the order in which they
\* first occur in a followed by b
UnionInOrder(r, a, b) ==
    LET ab == a \o b
        first(v) == CHOOSE i \in DOMAIN ab : ab[i] = v /\ \A j \in 1..(i - 1) : ab[j] # v
    IN  /\ Range(r) = Range(ab)
        /\ \A i, j \in DOMAIN r : i < j => first(r[i]) < first(r[j])

\* C11: the labels, reviewers and assignees of the rule mergeUpdate returns
\* are the union of the existing and the template list without duplicates:
\* the existing items first, in first-seen order, then the template items not
\* already present, for every rule of the existing document Merge was called
\* with and every rule of every loaded template.
C11_MergeLists ==
    JustMerged =>
        \A e \in Range(stored[1].Updates) : \A t \in TemplateRules :
            LET m == mergeUpdate(e, t)
            IN  /\ UnionInOrder(m.Labels, e.Labels, t.Labels)
                /\ UnionInOrder(m.Reviewers, e.Reviewers, t.Reviewers)
                /\ UnionInOrder(m.Assignees, e.Assignees, t.Assignees)

\* C11 witness: Merge returned a rule merged from the existing labels
\* dependencies, custom and the template labels automated, npm, with the four
\* labels in that order, and with one assignee where the existing rule named
\* the same assignee twice.
C11_Witness ==
    /\ MergedExisting
    /\ \E k \in DOMAIN Output.Updates : \E e \in Range(stored[1].Updates) :
       \E t \in TemplateRules :
          /\ Output.Updates[k] = mergeUpdate(e, t)
          /\ e.Labels = <<"dependencies", "custom">>
          /\ t.Labels = <<"automated", "npm">>
          /\ Output.Updates[k].Labels = <<"dependencies", "custom", "automated", "npm">>
          /\ Len(e.Assignees) = 2
          /\ Output.Updates[k].Assignees = <<"user1">>

\* C12: the rule mergeUpdate returns has the template's schedule; the
\* template's open-pull-requests limit when that is positive and the existing
\* limit otherwise; the template's versioning strategy when that is not empty
\* and the existing one otherwise.
C12_Replace ==
    JustMerged =>
        \A e \in Range(stored[1].Updates) : \A t \in TemplateRules :
            LET m == mergeUpdate(e, t)
            IN  /\ m.Schedule = t.Schedule
                /\ m.OpenPullRequestsLimit =
                       IF t.OpenPullRequestsLimit > 0
                       THEN t.OpenPullRequestsLimit ELSE e.OpenPullRequestsLimit
                /\ m.VersioningStrategy =
                       IF t.VersioningStrategy # ""
                       THEN t.VersioningStrategy ELSE e.VersioningStrategy

\* C12 witness: Merge returned a rule merged from an existing rule with a
\* limit and a versioning strategy and a template rule that sets neither and
\* has another schedule: the schedule is the template's, the two are kept.
C12_Witness ==
    /\ MergedExisting
    /\ \E k \in DOMAIN Output.Updates : \E e \in Range(stored[1].Updates) :
       \E t \in TemplateRules :
          /\ Output.Updates[k] = mergeUpdate(e, t)
          /\ t.Schedule # e.Schedule
          /\ t.OpenPullRequestsLimit = 0 /\ e.OpenPullRequestsLimit > 0
          /\ t.VersioningStrategy = "" /\ e.VersioningStrategy # ""
          /\ Output.Updates[k].Schedule = t.Schedule
          /\ Output.Updates[k].OpenPullRequestsLimit = e.OpenPullRequestsLimit
          /\ Output.Updates[k].VersioningStrategy = e.VersioningStrategy

\* the groups of a rule as a mapping: a nil map has no names
GroupsOf(u) == IF u.Groups = None THEN <<>> ELSE u.Groups[1]

\* C13: the groups of the rule mergeUpdate returns have the names of the
\* existing and of the template groups; a name the template has is defined as
\* in the template, a name only the existing rule has as in the existing rule.
C13_DeepMergeGroups ==
    JustMerged =>
        \A e \in Range(stored[1].Updates) : \A t \in TemplateRules :
            LET m == GroupsOf(mergeUpdate(e, t))
            IN  /\ DOMAIN m = DOMAIN GroupsOf(e) \cup DOMAIN GroupsOf(t)
                /\ \A name \in DOMAIN m :
                       m[name] = IF name \in DOMAIN GroupsOf(t)
                                 THEN GroupsOf(t)[name] ELSE GroupsOf(e)[name]

\* C13 witness: Merge returned a rule merged from an existing rule and a
\* template rule that define one group name differently, the existing rule
\* having a group of its own: the merged rule has the template's definition
\* of the shared name and the existing rule's own group.
C13_Witness ==
    /\ MergedExisting
    /\ \E k \in DOMAIN Output.Updates : \E e \in Range(stored[1].Updates) :
       \E t \in TemplateRules :
          /\ Output.Updates[k] = mergeUpdate(e, t)
          /\ \E shared \in DOMAIN GroupsOf(e) \cap DOMAIN GroupsOf(t) :
                /\ GroupsOf(e)[shared] # GroupsOf(t)[shared]
                /\ GroupsOf(Output.Updates[k])[shared] = GroupsOf(t)[shared]
          /\ \E own \in DOMAIN GroupsOf(e) \ DOMAIN GroupsOf(t) :
                GroupsOf(Output.Updates[k])[own] = GroupsOf(e)[own]

\* C14: the commit message of the rule mergeUpdate returns is the existing
\* rule's when the existing rule has one, and the template's (which may be
\* unset too) when it has none.
C14_CommitMessageFill ==
    JustMerged =>
        \A e \in Range(stored[1].Updates) : \A t \in TemplateRules :
            mergeUpdate(e, t).CommitMessage =
                IF e.CommitMessage # None THEN e.CommitMessage ELSE t.CommitMessage

\* C14 witness: Merge returned two rules merged with a template rule that has
\* a commit message: one from an existing rule with another commit message,
\* which it kept, and one from an existing rule without, which has the
\* template's.
C14_Witness ==
    /\ MergedExisting
    /\ \E t \in TemplateRules :
          /\ t.CommitMessage # None
          /\ \E k \in DOMAIN Output.Updates : \E e \in Range(stored[1].Updates) :
                /\ Output.Updates[k] = mergeUpdate(e, t)
                /\ e.CommitMessage \notin {None, t.CommitMessage}
                /\ Output.Updates[k].CommitMessage = e.CommitMessage
          /\ \E k \in DOMAIN Output.Updates : \E e \in Range(stored[1].Updates) :
                /\ Output.Updates[k] = mergeUpdate(e, t)
                /\ e.CommitMessage = None
                /\ Output.Updates[k].CommitMessage = t.CommitMessage

\* the detected ecosystems that have no template, and the others in order
NoTemplate == {i \in DOMAIN ecosystems : ecosystems[i].Name \notin DOMAIN templates}

WithTemplate ==
    LET keep(i) == ecosystems[i].Name \in DOMAIN templates
        F[i \in 0..Len(ecosystems)] ==
            IF i = 0 THEN <<>>
            ELSE IF keep(i) THEN Append(F[i - 1], ecosystems[i]) ELSE F[i - 1]
    IN  F[Len(ecosystems)]

\* the minimal default rule of an ecosystem tag and a directory
DefaultRule(tag, dir) ==
    [DependabotUpdate EXCEPT
        !.PackageEcosystem = tag, !.Directory = dir,
        !.Schedule.Interval = "weekly",
        !.OpenPullRequestsLimit = 10,
        !.Labels = <<"dependencies">>]

\* without an existing document: one default rule per directory of a
\* detected ecosystem without a template
C15_DefaultRules ==
    (Merged /\ existingConfig = None) =>
        \A i \in NoTemplate : \A j \in DOMAIN ecosystems[i].Directories :
            Count(Output.Updates,
                  DefaultRule(ecosystems[i].Type, ecosystems[i].Directories[j])) = 1

\* with an existing document: the detected ecosystems without a template add
\* nothing, the document returned is the one Merge returns without them
C15_NoNewRule ==
    MergedExisting => Output = Merge(templates, stored, WithTemplate).merged

\* with an existing document: the existing rules of a detected ecosystem
\* without a template are in the document returned
C15_ExistingKept ==
    MergedExisting =>
        \A i \in NoTemplate : \A k \in DOMAIN stored[1].Updates :
            stored[1].Updates[k].PackageEcosystem = ecosystems[i].Type
                => Count(Output.Updates, Normalized(stored[1].Updates[k]))
                       >= Count(stored[1].Updates, stored[1].Updates[k])

\* C15: a detected ecosystem without a template makes Merge return one
\* minimal default rule per directory (the ecosystem's tag, weekly, limit 10,
\* label dependencies) when there is no existing document, and add no rule
\* and keep the ecosystem's existing rules when there is one.
C15_MissingTemplate ==
    /\ C15_DefaultRules
    /\ C15_NoNewRule
    /\ C15_ExistingKept

\* the fixed exclusion vocabulary
ExclusionTopics == {"no-dependabot", "skip-dependabot", "exclude-dependabot"}

\* C16: HasExclusionTopic is true exactly when the repository's topics hold
\* one of no-dependabot, skip-dependabot, exclude-dependabot at least, and
\* false otherwise, the empty topic list included.
C16_ExclusionTopic ==
    /\ HasExclusionTopic(topics) <=> Range(topics) \cap ExclusionTopics # {}
    /\ ~HasExclusionTopic(<<>>)

\* C16 witness: a repository whose second topic is its only exclusion topic
\* has been skipped for it.
C16_Witness ==
    /\ Len(topics) = 2
    /\ topics[1] \notin ExclusionTopics
    /\ topics[2] = "exclude-dependabot"
    /\ report # None
    /\ report[1].Status = "skipped"
    /\ report[1].SkipReason = "has exclusion topic"

\* C17: the exclusion check comes before detection and short-circuits: a
\* repository with an exclusion topic is never past the check other than
\* done, recorded as skipped for the topic; Detect, GetExistingConfig and
\* Merge have returned nothing for it and nothing has been written.
C17_ExclusionShortCircuit ==
    HasExclusionTopic(topics) =>
        /\ pc \in {"exclusion", "done"}
        /\ pc = "exclusion" => report = None
        /\ pc = "done" => /\ report # None
                          /\ report[1].Status = "skipped"
                          /\ report[1].SkipReason = "has exclusion topic"
        /\ ecosystems = <<>>
        /\ existingConfig = None
        /\ mergedConfig = None
        /\ writes = <<>>

\* C17 witness: a repository with an exclusion topic, a tree with indicator
\* files and a stored document is done, skipped, with nothing detected,
\* fetched, merged or written.
C17_Witness ==
    /\ HasExclusionTopic(topics)
    /\ pc = "done"
    /\ report # None /\ report[1].Status = "skipped"
    /\ Len(tree) > 0 /\ stored # None
    /\ ecosystems = <<>> /\ existingConfig = None /\ mergedConfig = None /\ writes = <<>>

\* C18: Merge has no side effect: when it has returned, the existing document
\* it was called with is, in every field of every rule, the document that was
\* read from the repository.
C18_MergeNoSideEffect ==
    MergedExisting => existingConfig = stored

\* the ecosystem identifiers of the rules of a sequence
EcosystemsOf(updates) == { updates[i].PackageEcosystem : i \in DOMAIN updates }

\* C19: every rule of a Merge output has the ecosystem identifier of a
\* detected ecosystem or of a rule of the existing document; no identifier
\* comes from a template's content alone.
C19_EcosystemFromDetectedOrExisting ==
    Merged =>
        \A i \in DOMAIN Output.Updates :
            \/ \E e \in Range(ecosystems) : Output.Updates[i].PackageEcosystem = e.Type
            \/ /\ stored # None
               /\ Output.Updates[i].PackageEcosystem \in EcosystemsOf(stored[1].Updates)

\* the sequences that are permutations of s
Perms(s) == { [i \in DOMAIN s |-> s[o[i]]] : o \in MapOrders(DOMAIN s) }

\* the detected lists that are permutations of d, the directory list of every
\* entry permuted as well
PermutedDetections(d) ==
    UNION { { [i \in DOMAIN p |-> [p[i] EXCEPT !.Directories = f[i]]] :
                f \in { g \in [DOMAIN p -> UNION { Perms(p[j].Directories) : j \in DOMAIN p }] :
                            \A i \in DOMAIN p : g[i] \in Perms(p[i].Directories) } } :
            p \in Perms(d) }

\* the existing document the Merge of this state was called with
MergeInput == IF existingConfig = None THEN None ELSE stored

\* every template holds rules of its own ecosystem only
OwnEcosystemTemplates ==
    \A name \in DOMAIN templates :
        \A i \in DOMAIN templates[name].Updates :
            templates[name].Updates[i].PackageEcosystem = name

\* C20: Merge does not depend on the order of the detected list or of its
\* directory lists: every permutation of the list Merge was called with gives
\* the same output, rule order included.
C20_OrderIndependent ==
    (Merged /\ writes = <<>>) =>
        \A q \in PermutedDetections(ecosystems) :
            Merge(templates, MergeInput, q).merged = Output

\* C20 for templates that hold rules of their own ecosystem only
C20_OrderIndependentOwnTemplates ==
    (Merged /\ writes = <<>> /\ OwnEcosystemTemplates) =>
        \A q \in PermutedDetections(ecosystems) :
            Merge(templates, MergeInput, q).merged = Output

\* the tag Detect reports for the ecosystem of a configs directory
DetectorTag(d) ==
    CASE d = "golang" -> "gomod"
      [] d = "python" -> "pip"
      [] OTHER -> d

\* C26: a template loaded from a configs directory is the one Merge uses
\* where the ecosystem of that directory is detected: without an existing
\* document, the output holds a copy of every rule of the file for every
\* detected directory of the ecosystem.
C26_LoadedTemplateUsed ==
    (Merged /\ existingConfig = None) =>
        \A d \in DOMAIN configDir : \A i \in DOMAIN ecosystems :
            ecosystems[i].Name = DetectorTag(d) =>
                \A j \in DOMAIN ecosystems[i].Directories :
                    Range(FromTemplate(configDir[d], ecosystems[i].Directories[j]))
                        \subseteq Range(Output.Updates)

\* C26 for the directories other than python
C26_LoadedTemplateUsedButPython ==
    (Merged /\ existingConfig = None) =>
        \A d \in DOMAIN configDir \ {"python"} : \A i \in DOMAIN ecosystems :
            ecosystems[i].Name = DetectorTag(d) =>
                \A j \in DOMAIN ecosystems[i].Directories :
                    Range(FromTemplate(configDir[d], ecosystems[i].Directories[j]))
                        \subseteq Range(Output.Updates)

\* Detect has returned a list in this state
DetectReturned == pc \in {"fetch", "merge", "apply"} \/ (pc = "done" /\ Len(ecosystems) > 0)
                  \/ (pc = "done" /\ report # None
                         /\ report[1].SkipReason = "no supported ecosystems detected")

\* the blob paths of the tree that an indicator of the tag matches
MatchingPaths(entries, tag) ==
    {entries[i].Path : i \in {n \in DOMAIN entries :
        /\ entries[n].Type = "blob"
        /\ \E k \in DOMAIN indicators[tag] :
               matchesPattern(entries[n].Path, indicators[tag][k].file)}}

\* the directory that contains a file, with a leading "/"
ContainingDirectory(path) ==
    IF \A i \in DOMAIN path : path[i] # "/" THEN "/"
    ELSE "/" \o Str(SubSeq(path, 1, LastSlash(path) - 1))

\* C23: Detect returns one ecosystem per tag with a matching blob path and
\* none for the other tags; the directory list of an ecosystem has no
\* duplicates and is "/" alone for a root-only tag, and otherwise the
\* containing directories of the matching files.
C23_DetectEcosystems ==
    DetectReturned =>
        /\ \A i, j \in DOMAIN ecosystems :
               ecosystems[i].Name = ecosystems[j].Name => i = j
        /\ {ecosystems[i].Name : i \in DOMAIN ecosystems} =
               {t \in Range(EcosystemTags) : MatchingPaths(tree, t) # {}}
        /\ \A i \in DOMAIN ecosystems :
               LET eco == ecosystems[i]
               IN  /\ eco.Type = eco.Name
                   /\ \A a, b \in DOMAIN eco.Directories :
                          eco.Directories[a] = eco.Directories[b] => a = b
                   /\ Range(eco.Directories) =
                          IF eco.Name \in RootOnlyTags THEN {"/"}
                          ELSE {ContainingDirectory(q) : q \in MatchingPaths(tree, eco.Name)}

\* C23 witness: a tree with two npm files at the root and one in
\* packages/ui: one npm ecosystem with the directories "/" and
\* "/packages/ui", each once.
C23_Witness ==
    /\ DetectReturned
    /\ Cardinality(MatchingPaths(tree, "npm")) = 3
    /\ Len(ecosystems) = 1
    /\ ecosystems[1].Name = "npm"
    /\ Len(ecosystems[1].Directories) = 2
    /\ Range(ecosystems[1].Directories) = {"/", "/packages/ui"}

\* C24: the list Detect returned is in descending order of confidence.
C24_DescendingConfidence ==
    DetectReturned =>
        \A i \in 1..(Len(ecosystems) - 1) :
            ecosystems[i].Confidence >= ecosystems[i + 1].Confidence

\* C24 witness: three ecosystems of three different confidences, returned
\* for a tree that lists the file of the highest confidence last.
C24_Witness ==
    /\ DetectReturned
    /\ Len(ecosystems) = 3
    /\ ecosystems[1].Confidence > ecosystems[2].Confidence
    /\ ecosystems[2].Confidence > ecosystems[3].Confidence
    /\ Len(tree) = 3
    /\ \E k \in DOMAIN indicators[ecosystems[1].Name] :
           matchesPattern(tree[3].Path, indicators[ecosystems[1].Name][k].file)

\* a pattern with one "*" matches a name that starts with what is before the
\* "*" and ends with what is after it, with no separator in between
GlobMatches(pattern, name) ==
    LET star == CHOOSE i \in DOMAIN pattern : pattern[i] = "*"
        before == SubSeq(pattern, 1, star - 1)
        after == SubSeq(pattern, star + 1, Len(pattern))
    IN  /\ Len(name) >= Len(before) + Len(after)
        /\ SubSeq(name, 1, Len(before)) = before
        /\ SubSeq(name, Len(name) - Len(after) + 1, Len(name)) = after
        /\ \A i \in (Len(before) + 1)..(Len(name) - Len(after)) : name[i] # "/"

\* the patterns of the indicator catalog
IndicatorPatterns ==
    UNION {{indicators[t][k].file : k \in DOMAIN indicators[t]} : t \in DOMAIN indicators}

\* C27: a pattern without a wildcard matches a path exactly when it is the
\* path's base name or the whole path; a pattern with "*" matches when it
\* glob-matches the base name or the whole path, "*" not matching "/": for
\* every path of the tree and every pattern of the catalog.
C27_PatternMatching ==
    DetectReturned =>
        \A i \in DOMAIN tree : \A pattern \in IndicatorPatterns :
            LET path == tree[i].Path
            IN  matchesPattern(path, pattern) =
                    IF \E k \in DOMAIN pattern : pattern[k] = "*"
                    THEN GlobMatches(pattern, Base(path)) \/ GlobMatches(pattern, path)
                    ELSE pattern = Base(path) \/ pattern = path

\* C27 witness: Detect returned for a tree with package.json below the root,
\* matched by its base name, a workflow file, matched by the whole path and
\* not by its base name, and a workflow file one directory further down,
\* which no pattern matches.
C27_Witness ==
    /\ DetectReturned
    /\ \E i, j, k \in DOMAIN tree :
          /\ LastSlash(tree[i].Path) > 0
          /\ matchesPattern(tree[i].Path, <<"package", ".", "json">>)
          /\ \E pattern \in IndicatorPatterns :
                /\ matchesPattern(tree[j].Path, pattern)
                /\ "*" \in Range(pattern)
                /\ ~Match(pattern, Base(tree[j].Path))
          /\ Base(tree[k].Path) = Base(tree[j].Path)
          /\ \A pattern \in IndicatorPatterns : ~matchesPattern(tree[k].Path, pattern)
    /\ {ecosystems[i].Name : i \in DOMAIN ecosystems} = {"npm", "github-actions"}

\* the repository was skipped for an exclusion topic
SkippedForTopic ==
    /\ report # None
    /\ report[1].Status = "skipped"
    /\ report[1].SkipReason = "has exclusion topic"

\* C28: a repository is skipped for an exclusion topic exactly when one of
\* its topics is in the list given with -exclude-topics.
C28_ConfiguredExclusion ==
    pc = "done" =>
        (SkippedForTopic <=>
            \E i \in DOMAIN topics : topics[i] \in Range(options.excludeTopics))

\* the goroutines that are past the acquire of the semaphore and have not
\* given their slot back
InFlight == {w \in DOMAIN workers : workers[w].pc \in {"report", "store", "release"}}

\* C21: never more goroutines than the configured concurrency are past the
\* acquire and not yet finished, and the semaphore holds one value per such
\* goroutine: a goroutine that has returned, whatever statement it returned
\* from, has given back the one slot it took.
C21_BoundedWorkers ==
    /\ Cardinality(InFlight) <= concurrency
    /\ semaphore = Cardinality(InFlight)
    /\ \A w \in DOMAIN workers :
           workers[w].pc \in {"wgdone", "done"} => workers[w].out # None

\* C21 witness: the semaphore is full, one goroutine waits for a slot, and a
\* goroutine that left processRepository early, at the failed detection, is
\* about to give its slot back.
C21_Witness ==
    /\ ~crashed
    /\ semaphore = concurrency
    /\ \E w, v \in DOMAIN workers :
          /\ workers[w].pc = "acquire"
          /\ workers[v].pc = "release"
          /\ workers[v].out[1].Step = "detect"

\* the goroutines that have gone through processRepository up to its call of
\* the reporter
Processed == {w \in DOMAIN workers : workers[w].out # None}

\* C22: in a dry run no goroutine makes a write to its repository, neither a
\* file create or update nor a pull request, wherever it returns from and
\* however the goroutines interleave; a repository whose merged document
\* differs from its stored one is passed to the reporter as updated.
C22_DryRunNoWrite ==
    options.dryRun =>
        \A w \in Processed :
            LET o == workers[w].out[1]
            IN  /\ o.Write = None
                /\ (o.Merged /\ o.Step # "compare")
                       => o.Step = "end" /\ o.Status = "updated"

\* C22 witness: a dry run has returned; one repository was found to differ
\* and was reported as updated without a write.
C22_Witness ==
    /\ options.dryRun
    /\ runPc = "returned"
    /\ \E w \in Processed :
          /\ workers[w].out[1].Status = "updated"
          /\ workers[w].out[1].Write = None
          /\ \E k \in DOMAIN runReport.RepositoryDetails :
                runReport.RepositoryDetails[k] = [Name |-> w, Status |-> "updated"]

\* the goroutines whose call of Detect failed at the listing of the tree
DetectionFailed == {w \in Processed : workers[w].out[1].Step = "detect"}

ReportComplete ==
    /\ Len(runReport.RepositoryDetails) = Len(repos)
    /\ \A w \in DOMAIN repos :
           Cardinality({k \in DOMAIN runReport.RepositoryDetails :
                           runReport.RepositoryDetails[k].Name = w}) = 1
    /\ runReport.TotalRepositories = Len(repos)
    /\ runReport.TotalRepositories =
           runReport.ConfiguredRepositories + runReport.UpdatedRepositories
               + runReport.SkippedRepositories + runReport.FailedRepositories

\* C29: when Run returns, whatever the interleaving of the goroutines, the
\* report holds exactly one detail record per repository, TotalRepositories
\* is the number of repositories, and TotalRepositories is the sum of the
\* configured, updated, skipped and failed counters.
C29_NoLostReportUpdate == runPc = "returned" => ReportComplete

\* the same for the runs with one slot in the semaphore, where the calls of
\* the reporter cannot overlap
C29_NoLostReportUpdateSequential == (runPc = "returned" /\ concurrency = 1) => ReportComplete

\* Run has returned and every goroutine has released its slot and finished
RunComplete ==
    /\ runPc = "returned"
    /\ Len(workers) = Len(repos)
    /\ \A w \in DOMAIN workers : workers[w].pc = "done"
    /\ semaphore = 0

\* C30: with every remote call returning, every goroutine eventually gets a
\* slot of the semaphore, finishes and gives the slot back, and Run returns,
\* after the processing of every repository is over.
C30_RunTerminates == <>RunComplete

\* Run returns only when every goroutine is over
C30_ReturnsAfterAll == runPc = "returned" => RunComplete

\* the semaphore and the wait group do not block a run: it ends with Run
\* returned, unless the runtime has stopped the process
C30_TerminatesUnlessCrashed == <>(RunComplete \/ crashed)

====
